---- MODULE Spec2Model ----
(***************************************************************************)
(* Download lifecycle coordinator of app.py: the POST /api/download        *)
(* handler, its asynchronous workers, the storage reclaimer                *)
(* (aggressive_cleanup), the manual cleanup and list endpoints and the     *)
(* background sweep (cleanup_status), as concurrently running threads over *)
(* the shared dictionary download_status and the download directory; with  *)
(* the status endpoint (get_download_status) and clean_up_old_files.       *)
(***************************************************************************)
EXTENDS Integers, FiniteSets, Sequences, TLC

\* ---------------------------------------------------------------- bounds
MaxReq == 2          \* POST /api/download requests (each may spawn one worker)
MaxTicks == 2        \* clock advances of TickStep seconds
MaxFiles == 7        \* files in the directory when clean_up_old_files is called
MaxLimit == 3        \* largest limit clean_up_old_files is called with
MaxHours == 2        \* whole wall-clock hours observed after the hour of the start

\* ------------------------------------------------------ program constants
ShortLimit == 180        \* app.py:321  sync/async routing threshold
DurationCap == 600       \* app.py:209  worker's duration cap
ApiDiskLimit == 90       \* app.py:291
WorkerDiskLimit == 85    \* app.py:147
Retention == 1800        \* app.py:631
HourSecs == 3600         \* app.py:641
SchedWindow == 60        \* app.py:641
SweepSleep == 600        \* app.py:648
TickStep == Retention    \* granularity of the modelled clock

None == "None"
\* Python's None where the other values are numbers
Unset == -1
\* Python's None where the other values are file names
NoFile == <<"none", 0>>

Reqs == 1..MaxReq
\* durations the adapter may report; 0 stands for absent / None / 0 (all falsy)
Durations == {0, ShortLimit, ShortLimit + 1, DurationCap + 1}
\* disk usage percentages get_disk_usage may report; Unset when psutil fails
DiskPercents ==
  {WorkerDiskLimit, WorkerDiskLimit + 1, ApiDiskLimit, ApiDiskLimit + 1, Unset}
\* percentages a progress callback may carry
Percents == {0, 50}
\* seconds into the hour at which the module is loaded and the sweep thread
\* started (line 653)
StartTimes == {0, SchedWindow - 1, SchedWindow, SweepSleep - 1}
\* seconds by which time.sleep(600) may overrun
Lateness == {0, 1}
\* what request.get_json() returns: a JSON object with a non-empty "url", a
\* JSON object whose "url" is absent or empty, or a JSON value that is not an
\* object (null, a list, a string), on which data.get raises
Bodies == {"url", "no_url", "not_object"}

\* the file download_video_sync writes (its own unique_id)
DirectFile == <<"d", 0>>
\* unique_id of the synchronous and of the asynchronous attempt of request r:
\* every file the adapter writes is named "<unique_id>_<title>.<ext>"
SyncFile(r) == <<"s", r>>
AsyncFile(r) == <<"a", r>>
\* a file left in the directory by an earlier run, when the process was not
\* started through line 655 (whose start-up cleanup empties the directory)
OldFile == <<"old", 0>>

VARIABLES
  now,              \* time.time()
  files,            \* regular files in DOWNLOAD_FOLDER
  download_status,  \* the global dict: download_id -> record
  pc,               \* pc[r]: position of request handler r (download_video)
  cleanup_result,   \* cleanup_result[r]: the handler's local, Unset before the reclaim returned
  duration,         \* duration[r]: the handler's local, Unset before the metadata query returned
  snap,             \* snap[r]: the list glob.glob returned inside aggressive_cleanup called by handler r
  deleted_count,    \* deleted_count[r]: the local of that call, Unset outside it
  resp,             \* resp[r]: the HTTP response of request r
  wpc,              \* wpc[r]: position of the worker thread spawned by request r
  cpc,              \* position of the client that calls POST /api/cleanup, then GET /api/list
  csnap,            \* the glob list in the call made by cleanup_files
  listCount,        \* "count" of the last /api/list response
  qpc,              \* position of the client that calls GET /api/status/<id>
  qid,              \* the download_id of that request
  qresp,            \* the response to it
  dpc,              \* position of the handler of POST /api/download-sync (download_video_sync)
  dsnap,            \* the glob list in the call of aggressive_cleanup made by it
  dresp,            \* the status code of its response, Unset before it
  spc,              \* position of the sweep thread (cleanup_status)
  ssnap,            \* the glob list in the call made by cleanup_status
  scanSize,         \* len(download_status) when the sweep began iterating
  current_time,     \* the sweep's local current_time
  sleepLeft,        \* seconds left of the sweep's time.sleep(600); 0 when it is not sleeping
  schedRuns,        \* scheduled cleanups announced (line 642) in the current wall-clock hour
  stmt,             \* index in Startup of the next module-level statement to execute
  outcome,          \* "loading", "loaded", or "aborted" when a statement raised
  bound,            \* the module-level names bound so far
  installed,        \* the packages that can be imported
  writable,         \* whether os.makedirs can create the download directory
  asMain            \* whether the module runs as __main__ (line 655)

shared == <<files, download_status>>
reqVars == <<pc, cleanup_result, duration, snap, deleted_count, resp>>
listVars == <<cpc, csnap, listCount>>
queryVars == <<qpc, qid, qresp>>
syncVars == <<dpc, dsnap, dresp>>
clientVars == <<listVars, queryVars, syncVars>>
sweepVars == <<spc, ssnap, scanSize, current_time, sleepLeft, schedRuns>>
startVars == <<stmt, outcome, bound, installed, writable, asMain>>
vars == <<now, shared, reqVars, wpc, clientVars, sweepVars, startVars>>

\* --------------------------------------------------------- module start-up
\* the packages lines 1-16 import that are not part of the standard library
Packages == {"flask", "yt_dlp", "psutil", "flask_cors"}

\* a module-level statement: the package it imports ("none" when it imports
\* nothing), the names it reads, the names it binds, whether it creates the
\* download directory and whether it is guarded by __name__ == "__main__"
Statement(pkg, uses, binds, mkdir, main) ==
  [pkg |-> pkg, uses |-> uses, binds |-> binds, mkdir |-> mkdir, main |-> main]

\* the module-level statements of app.py that can raise, in file order
Startup ==
  << Statement("flask", {}, {"Flask"}, FALSE, FALSE),            \* line 1
     Statement("yt_dlp", {}, {"yt_dlp"}, FALSE, FALSE),          \* line 3
     Statement("psutil", {}, {"psutil"}, FALSE, FALSE),          \* line 14
     Statement("flask_cors", {}, {"CORS"}, FALSE, FALSE),        \* line 16
     Statement("none", {"CORS", "app"}, {}, FALSE, FALSE),       \* line 19: CORS(app, ...)
     Statement("none", {"Flask"}, {"app"}, FALSE, FALSE),        \* line 21: app = Flask(__name__)
     Statement("none", {}, {"DOWNLOAD_FOLDER"}, TRUE, FALSE),    \* lines 22-23: os.makedirs
     Statement("none", {}, {"download_status"}, FALSE, FALSE),   \* line 26
     Statement("none", {"app"}, {"cleanup_status"}, FALSE, FALSE),       \* lines 271-648: routes, defs
     Statement("none", {"cleanup_status"}, {"cleanup_thread"}, FALSE, FALSE),  \* lines 651-653
     Statement("none", {"app"}, {}, FALSE, TRUE) >>              \* lines 655-659

\* whether statement st raises: ImportError for a missing package, NameError
\* for a name that is not bound yet, OSError from os.makedirs
Raises(st) ==
  \/ st.pkg # "none" /\ st.pkg \notin installed
  \/ ~(st.uses \subseteq bound)
  \/ st.mkdir /\ ~writable

\* the interpreter executes the next module-level statement; an exception
\* that is raised at module level ends the process
StartupStep ==
  /\ outcome = "loading"
  /\ LET st == Startup[stmt]
     IN IF st.main /\ ~asMain
          THEN /\ outcome' = "loaded"
               /\ stmt' = stmt + 1
               /\ bound' = bound
          ELSE IF Raises(st)
            THEN /\ outcome' = "aborted"
                 /\ UNCHANGED <<stmt, bound>>
            ELSE /\ bound' = bound \cup st.binds
                 /\ stmt' = stmt + 1
                 /\ outcome' = IF stmt = Len(Startup) THEN "loaded" ELSE "loading"
  /\ UNCHANGED <<now, shared, reqVars, wpc, clientVars, sweepVars,
                 installed, writable, asMain>>

\* ------------------------------------------------------------ dictionaries
EmptyDict == [k \in {} |-> None]
DictPut(d, k, v) == [x \in DOMAIN d \cup {k} |-> IF x = k THEN v ELSE d[x]]
DictDrop(d, S) == [x \in DOMAIN d \ S |-> d[x]]

\* the record the worker stores first (lines 134-141)
NewRecord(t) ==
  [status |-> "downloading", progress |-> 0, filename |-> NoFile,
   title |-> None, error |-> None, timestamp |-> t]

\* download_status[download_id].update({'status': 'completed', ...}) (lines 230-236)
CompletedUpdate(rec, fname) ==
  [rec EXCEPT !.status = "completed", !.progress = 100,
              !.filename = fname, !.title = "title"]

\* an error update that stores the message and leaves the status as it is
ErrorUpdateMessageOnly(rec, msg) == [rec EXCEPT !.error = msg]

\* download_status[download_id].update({'status': 'error', 'error': msg})
ErrorUpdate(rec, msg) == [rec EXCEPT !.status = "error", !.error = msg]

\* the fields of a response the clients act on; duration is the "duration"
\* entry of the asynchronous response (None when the metadata query failed)
Response(code, method, id, d) ==
  [code |-> code, method |-> method, download_id |-> id, duration |-> d]
NoResponse == Response(Unset, None, Unset, Unset)

\* the response of GET /api/status/<id>: the status code and, with 200, the
\* copy of the job's record (line 440)
NoRecord ==
  [status |-> "none", progress |-> 0, filename |-> NoFile,
   title |-> None, error |-> None, timestamp |-> 0]
StatusResponse(code, rec) == [code |-> code, body |-> rec]

\* the routing test with the threshold itself excluded
IsShortStrictly(d) == d # 0 /\ d < ShortLimit
\* if duration and duration <= 180 (line 321)
IsShort(d) == d # 0 /\ d <= ShortLimit
\* if duration and duration > 600 (line 209)
TooLong(d) == d # 0 /\ d > DurationCap
\* if disk_info and disk_info['percent'] > limit (lines 147, 291)
DiskOver(p, limit) == p # Unset /\ p > limit
\* current_time - status.get('timestamp', current_time) > 1800 (line 631)
Expired(rec, t) == t - rec.timestamp > Retention
\* int(current_time) % 3600 < 60 (line 641)
ScheduledNow(t) == t % HourSecs < SchedWindow

\* the threads and the tracker before any request
InitThreads ==
  /\ download_status = EmptyDict
  /\ pc = [r \in Reqs |-> "new"]
  /\ cleanup_result = [r \in Reqs |-> Unset]
  /\ duration = [r \in Reqs |-> Unset]
  /\ snap = [r \in Reqs |-> {}]
  /\ deleted_count = [r \in Reqs |-> Unset]
  /\ resp = [r \in Reqs |-> NoResponse]
  /\ wpc = [r \in Reqs |-> "idle"]
  /\ cpc = "idle"
  /\ csnap = {}
  /\ listCount = Unset
  /\ qpc = "idle"
  /\ qid = Unset
  /\ qresp = StatusResponse(Unset, NoRecord)
  /\ dpc = "new"
  /\ dsnap = {}
  /\ dresp = Unset
  /\ spc = "sleep"
  /\ ssnap = {}
  /\ scanSize = 0
  /\ current_time = 0
  /\ sleepLeft = 0
  /\ schedRuns = 0

\* the module has been loaded: every module-level statement was executed
Loaded ==
  /\ stmt = Len(Startup) + 1
  /\ outcome = "loaded"
  /\ bound = UNION {Startup[i].binds : i \in 1..Len(Startup)}
  /\ installed = Packages
  /\ writable = TRUE
  /\ asMain = TRUE

\* the state of the threads and of the tracker when the module has been loaded
InitRest == InitThreads /\ Loaded

Init ==
  /\ now = 0
  /\ files \in {{}, {OldFile}}
  /\ InitRest

\* ------------------------------------------------- aggressive_cleanup
\* files = glob.glob(os.path.join(DOWNLOAD_FOLDER, "*")) (line 67)
ReclaimGlob == files

\* a delete loop that spares one file of the listing, as files[:-1] does in
\* clean_up_old_files
ReclaimDeletedButOne(listing) ==
  IF listing \cap files = {} THEN {}
  ELSE (listing \cap files) \ {CHOOSE f \in listing \cap files : TRUE}

\* a delete loop serialized against active jobs: it spares the artifact of
\* every job whose worker is still running
ReclaimDeletedSparingActive(listing) ==
  (listing \cap files)
    \ {AsyncFile(j) : j \in {k \in Reqs : wpc[k] \notin {"idle", "done", "crashed"}}}

\* the files the loop of lines 71-80 removes: those of the listing that are
\* still regular files; the others were removed by a concurrent reclaim
ReclaimDeleted(listing) == listing \cap files

\* lines 71-80: the delete loop; a deletion that fails is skipped
ReclaimDelete(listing) == files' = files \ ReclaimDeleted(listing)

\* a loop that counts every file of the listing, deleted or not
ReclaimCountListed(listing) == Cardinality(listing)

\* deleted_count after the loop (line 76)
ReclaimCount(listing) == Cardinality(ReclaimDeleted(listing))

\* lines 83-84: download_status.clear()
ReclaimClear == download_status' = EmptyDict

\* ------------------------------------------------- clean_up_old_files
\* a regular file of the directory whose creation time (os.path.getctime) is t
CtimeFile(t) == <<"c", t>>
Ctime(f) == f[2]

\* files.sort(key=lambda x: os.path.getctime(x)) (line 114): oldest first
RECURSIVE SortByCtime(_)
SortByCtime(S) ==
  IF S = {} THEN <<>>
  ELSE LET f == CHOOSE x \in S : \A y \in S : Ctime(x) <= Ctime(y)
       IN <<f>> \o SortByCtime(S \ {f})

\* files[:-1] (line 116)
AllButLast(seq) == SubSeq(seq, 1, Len(seq) - 1)

\* lines 112-116: files_to_delete, nothing when there are fewer than limit files
FilesToDelete(listing, limit) ==
  IF Cardinality(listing) >= limit
    THEN IF limit > 0
           THEN LET sorted == AllButLast(SortByCtime(listing))
                IN {sorted[i] : i \in 1..Len(sorted)}
           ELSE listing
    ELSE {}

\* clean_up_old_files(limit), lines 106-129
clean_up_old_files(limit) ==
  /\ files' = files \ FilesToDelete(files, limit)
  /\ UNCHANGED <<now, download_status, reqVars, wpc, clientVars, sweepVars, startVars>>

\* ------------------------------------------------ POST /api/download
\* lines 279-283 and 457-461: the status code of a request that is not
\* accepted: 400 from the handler's test of url, 500 from the framework when
\* data.get raised
SubmitError(body) == IF body = "not_object" THEN 500 ELSE 400

\* a handler that goes to the metadata query without calling aggressive_cleanup
SubmitSkipsCleanup(r, body) ==
  /\ pc[r] = "new"
  /\ IF body = "url"
       THEN /\ pc' = [pc EXCEPT ![r] = "info"]
            /\ resp' = resp
       ELSE /\ pc' = [pc EXCEPT ![r] = "done"]
            /\ resp' = [resp EXCEPT ![r] = Response(SubmitError(body), None, Unset, Unset)]
  /\ UNCHANGED <<now, shared, cleanup_result, duration, snap, deleted_count, wpc, clientVars, sweepVars, startVars>>

\* lines 279-287: data.get("url") raises AttributeError on a body that is not
\* an object, which nothing catches (500); a request without url is answered
\* 400; otherwise the handler goes on to call aggressive_cleanup
Submit(r, body) ==
  /\ pc[r] = "new"
  /\ IF body = "url"
       THEN /\ pc' = [pc EXCEPT ![r] = "cleanup"]
            /\ resp' = resp
       ELSE /\ pc' = [pc EXCEPT ![r] = "done"]
            /\ resp' = [resp EXCEPT ![r] = Response(SubmitError(body), None, Unset, Unset)]
  /\ UNCHANGED <<now, shared, cleanup_result, duration, snap, deleted_count, wpc, clientVars, sweepVars, startVars>>

ReqReclaimGlob(r) ==
  /\ pc[r] = "cleanup"
  /\ snap' = [snap EXCEPT ![r] = ReclaimGlob]
  /\ pc' = [pc EXCEPT ![r] = "deleting"]
  /\ UNCHANGED <<now, shared, cleanup_result, duration, deleted_count, resp, wpc,
                 clientVars, sweepVars, startVars>>

ReqReclaimDelete(r) ==
  /\ pc[r] = "deleting"
  /\ ReclaimDelete(snap[r])
  /\ deleted_count' = [deleted_count EXCEPT ![r] = ReclaimCount(snap[r])]
  /\ pc' = [pc EXCEPT ![r] = "clearing"]
  /\ UNCHANGED <<now, download_status, cleanup_result, duration, snap, resp, wpc,
                 clientVars, sweepVars, startVars>>

\* lines 83-100 and 287: the tracker is cleared, aggressive_cleanup returns
\* and the handler keeps the result ('files_deleted') in cleanup_result
ReqReclaimClear(r) ==
  /\ pc[r] = "clearing"
  /\ ReclaimClear
  /\ cleanup_result' = [cleanup_result EXCEPT ![r] = deleted_count[r]]
  /\ deleted_count' = [deleted_count EXCEPT ![r] = Unset]
  /\ snap' = [snap EXCEPT ![r] = {}]
  /\ pc' = [pc EXCEPT ![r] = "disk"]
  /\ UNCHANGED <<now, files, duration, resp, wpc, clientVars, sweepVars, startVars>>

\* a handler that measures the disk usage and goes on whatever it is
CheckDiskIgnored(r, p) ==
  /\ pc[r] = "disk"
  /\ pc' = [pc EXCEPT ![r] = "info"]
  /\ UNCHANGED <<now, shared, cleanup_result, duration, snap, deleted_count, resp, wpc,
                 clientVars, sweepVars, startVars>>

\* lines 290-294: the disk check after the reclaim
CheckDisk(r, p) ==
  /\ pc[r] = "disk"
  /\ IF DiskOver(p, ApiDiskLimit)
       THEN /\ pc' = [pc EXCEPT ![r] = "done"]
            /\ resp' = [resp EXCEPT ![r] = Response(507, None, Unset, Unset)]
            /\ cleanup_result' = [cleanup_result EXCEPT ![r] = Unset]
       ELSE /\ pc' = [pc EXCEPT ![r] = "info"]
            /\ UNCHANGED <<resp, cleanup_result>>
  /\ UNCHANGED <<now, shared, duration, snap, deleted_count, wpc, clientVars, sweepVars, startVars>>

\* handle_async_download (lines 401-427): start the worker thread, answer
\* with the download_id; the handler returns and its locals are gone
AsyncSpawn(r, d) ==
  /\ wpc' = [wpc EXCEPT ![r] = "start"]
  /\ resp' = [resp EXCEPT ![r] = Response(200, "async", r, d)]
  /\ pc' = [pc EXCEPT ![r] = "done"]
  /\ cleanup_result' = [cleanup_result EXCEPT ![r] = Unset]
  /\ duration' = [duration EXCEPT ![r] = Unset]

\* lines 313-326: the metadata query returned duration d; route on it
InfoReturn(r, d) ==
  /\ pc[r] = "info"
  /\ IF IsShort(d)
       THEN /\ pc' = [pc EXCEPT ![r] = "sync"]
            /\ duration' = [duration EXCEPT ![r] = d]
            /\ UNCHANGED <<wpc, resp, cleanup_result>>
       ELSE AsyncSpawn(r, d)
  /\ UNCHANGED <<now, shared, snap, deleted_count, clientVars, sweepVars, startVars>>

\* lines 328-332: the metadata query raised (or returned None): fall back to
\* handle_async_download(url, None, None, None, cleanup_result)
InfoRaise(r) ==
  /\ pc[r] = "info"
  /\ AsyncSpawn(r, Unset)
  /\ UNCHANGED <<now, shared, snap, deleted_count, clientVars, sweepVars, startVars>>

\* line 365, inside ydl.download: the adapter writes its output file
SyncWrite(r) ==
  /\ pc[r] = "sync"
  /\ SyncFile(r) \notin files
  /\ files' = files \cup {SyncFile(r)}
  /\ UNCHANGED <<now, download_status, reqVars, wpc, clientVars, sweepVars, startVars>>

\* line 365: ydl.download returned
SyncReturn(r) ==
  /\ pc[r] = "sync"
  /\ pc' = [pc EXCEPT ![r] = "syncglob"]
  /\ UNCHANGED <<now, shared, cleanup_result, duration, snap, deleted_count, resp, wpc, clientVars, sweepVars, startVars>>

\* a handler that answers 500 when the synchronous download raises, as
\* download_video_sync does (line 533)
SyncRaiseFails(r) ==
  /\ pc[r] = "sync"
  /\ pc' = [pc EXCEPT ![r] = "done"]
  /\ resp' = [resp EXCEPT ![r] = Response(500, None, Unset, Unset)]
  /\ cleanup_result' = [cleanup_result EXCEPT ![r] = Unset]
  /\ duration' = [duration EXCEPT ![r] = Unset]
  /\ UNCHANGED <<now, shared, snap, deleted_count, wpc, clientVars, sweepVars, startVars>>

\* line 365 raised: lines 393-397 fall back to the asynchronous path, with
\* the duration the metadata query reported (a short one)
SyncRaise(r) ==
  /\ pc[r] = "sync"
  /\ AsyncSpawn(r, duration[r])
  /\ UNCHANGED <<now, shared, snap, deleted_count, clientVars, sweepVars, startVars>>

\* lines 368-371 and 390-397: glob for the output; none found raises, and the
\* handler falls back to the asynchronous path
SyncGlob(r) ==
  /\ pc[r] = "syncglob"
  /\ IF SyncFile(r) \in files
       THEN /\ pc' = [pc EXCEPT ![r] = "syncstat"]
            /\ UNCHANGED <<wpc, resp, cleanup_result, duration>>
       ELSE AsyncSpawn(r, duration[r])
  /\ UNCHANGED <<now, shared, snap, deleted_count, clientVars, sweepVars, startVars>>

\* lines 372-389: os.path.getsize of the file found, then the sync response;
\* getsize raises OSError when the file was deleted meanwhile (lines 393-397)
SyncStat(r) ==
  /\ pc[r] = "syncstat"
  /\ IF SyncFile(r) \in files
       THEN /\ pc' = [pc EXCEPT ![r] = "done"]
            /\ resp' = [resp EXCEPT ![r] = Response(200, "sync", Unset, Unset)]
            /\ cleanup_result' = [cleanup_result EXCEPT ![r] = Unset]
            /\ duration' = [duration EXCEPT ![r] = Unset]
            /\ wpc' = wpc
       ELSE AsyncSpawn(r, duration[r])
  /\ UNCHANGED <<now, shared, snap, deleted_count, clientVars, sweepVars, startVars>>

\* ------------------------------------------------ download_video_async
\* the except clauses of lines 246-266: record the error in the job's record;
\* download_status[download_id] raises KeyError when the record is gone, and
\* that exception leaves the thread
Handler(j, msg) ==
  IF j \in DOMAIN download_status
    THEN /\ download_status' =
              [download_status EXCEPT ![j] = ErrorUpdate(download_status[j], msg)]
         /\ wpc' = [wpc EXCEPT ![j] = "done"]
    ELSE /\ download_status' = download_status
         /\ wpc' = [wpc EXCEPT ![j] = "crashed"]

\* lines 134-141: the thread's first statement stores the job's record
WorkerCreate(j) ==
  /\ wpc[j] = "start"
  /\ download_status' = DictPut(download_status, j, NewRecord(now))
  /\ wpc' = [wpc EXCEPT ![j] = "created"]
  /\ UNCHANGED <<now, files, reqVars, clientVars, sweepVars, startVars>>

\* lines 146-148: the worker's own disk check
WorkerDisk(j, p) ==
  /\ wpc[j] = "created"
  /\ IF DiskOver(p, WorkerDiskLimit)
       THEN Handler(j, "disk")
       ELSE /\ wpc' = [wpc EXCEPT ![j] = "extract"]
            /\ download_status' = download_status
  /\ UNCHANGED <<now, files, reqVars, clientVars, sweepVars, startVars>>

\* lines 204-214: the worker's metadata query returned duration d; above the
\* cap it raises, otherwise it stores the title (KeyError when the record is
\* gone) and goes on to ydl.download
WorkerInfo(j, d) ==
  /\ wpc[j] = "extract"
  /\ IF TooLong(d)
       THEN Handler(j, "too_long")
       ELSE IF j \in DOMAIN download_status
              THEN /\ download_status' = [download_status EXCEPT ![j].title = "title"]
                   /\ wpc' = [wpc EXCEPT ![j] = "download"]
              ELSE Handler(j, "key_error")
  /\ UNCHANGED <<now, files, reqVars, clientVars, sweepVars, startVars>>

\* line 204 raised, or returned None (ignoreerrors) so that line 205 raises
WorkerInfoRaise(j) ==
  /\ wpc[j] = "extract"
  /\ Handler(j, "download_error")
  /\ UNCHANGED <<now, files, reqVars, clientVars, sweepVars, startVars>>

\* progress_hook, 'downloading' (lines 184-194): the bare except swallows the
\* KeyError of a missing record
ProgressHook(j, p) ==
  /\ wpc[j] = "download"
  /\ download_status' =
       IF j \in DOMAIN download_status
         THEN [download_status EXCEPT ![j].progress = p]
         ELSE download_status
  /\ UNCHANGED <<now, files, reqVars, wpc, clientVars, sweepVars, startVars>>

\* progress_hook, 'finished' (lines 195-197): the adapter has written the file;
\* the KeyError of a missing record is raised into the adapter, which either
\* swallows it (ignoreerrors) or lets it out of ydl.download
ProgressFinished(j, swallowed) ==
  /\ wpc[j] = "download"
  /\ AsyncFile(j) \in files
  /\ IF j \in DOMAIN download_status
       THEN /\ download_status' = [download_status EXCEPT ![j].progress = 100]
            /\ wpc' = wpc
       ELSE IF swallowed
              THEN UNCHANGED <<download_status, wpc>>
              ELSE Handler(j, "key_error")
  /\ UNCHANGED <<now, files, reqVars, clientVars, sweepVars, startVars>>

\* line 217, inside ydl.download: the adapter writes its output file
AdapterWrite(j) ==
  /\ wpc[j] = "download"
  /\ AsyncFile(j) \notin files
  /\ files' = files \cup {AsyncFile(j)}
  /\ UNCHANGED <<now, download_status, reqVars, wpc, clientVars, sweepVars, startVars>>

\* line 217: ydl.download returned (with or without an output file)
DownloadReturn(j) ==
  /\ wpc[j] = "download"
  /\ wpc' = [wpc EXCEPT ![j] = "glob"]
  /\ UNCHANGED <<now, shared, reqVars, clientVars, sweepVars, startVars>>

\* line 217 raised
DownloadRaise(j) ==
  /\ wpc[j] = "download"
  /\ Handler(j, "download_error")
  /\ UNCHANGED <<now, files, reqVars, clientVars, sweepVars, startVars>>

\* a worker that records the job as completed as soon as the glob finds the
\* file, before os.path.getsize has succeeded
WorkerGlobMarksCompleted(j) ==
  /\ wpc[j] = "glob"
  /\ IF AsyncFile(j) \in files
       THEN /\ wpc' = [wpc EXCEPT ![j] = "stat"]
            /\ download_status' =
                 IF j \in DOMAIN download_status
                   THEN [download_status EXCEPT
                           ![j] = CompletedUpdate(download_status[j], AsyncFile(j))]
                   ELSE download_status
       ELSE Handler(j, "not_found")
  /\ UNCHANGED <<now, files, reqVars, clientVars, sweepVars, startVars>>

\* lines 220-223 and 240-244: glob for "<unique_id>_*"; when nothing is found
\* the job is recorded as error (KeyError when the record is gone)
WorkerGlob(j) ==
  /\ wpc[j] = "glob"
  /\ IF AsyncFile(j) \in files
       THEN /\ wpc' = [wpc EXCEPT ![j] = "stat"]
            /\ download_status' = download_status
       ELSE Handler(j, "not_found")
  /\ UNCHANGED <<now, files, reqVars, clientVars, sweepVars, startVars>>

\* lines 224-236: os.path.getsize of the file found (OSError when it was
\* deleted meanwhile), then the record is updated to completed (KeyError
\* when the record is gone)
WorkerStat(j) ==
  /\ wpc[j] = "stat"
  /\ IF AsyncFile(j) \in files /\ j \in DOMAIN download_status
       THEN /\ download_status' =
                 [download_status EXCEPT
                    ![j] = CompletedUpdate(download_status[j], AsyncFile(j))]
            /\ wpc' = [wpc EXCEPT ![j] = "done"]
       ELSE Handler(j, "os_error")
  /\ UNCHANGED <<now, files, reqVars, clientVars, sweepVars, startVars>>

\* ------------------------------------------- POST /api/download-sync
\* lines 457-461: as in download_video, before anything else
DownloadSyncSubmit(body) ==
  /\ dpc = "new"
  /\ IF body = "url"
       THEN /\ dpc' = "cleanup"
            /\ dresp' = dresp
       ELSE /\ dpc' = "done"
            /\ dresp' = SubmitError(body)
  /\ UNCHANGED <<now, shared, reqVars, wpc, listVars, queryVars, dsnap, sweepVars, startVars>>

\* line 466: aggressive_cleanup
DownloadSyncReclaimGlob ==
  /\ dpc = "cleanup"
  /\ dsnap' = ReclaimGlob
  /\ dpc' = "deleting"
  /\ UNCHANGED <<now, shared, reqVars, wpc, listVars, queryVars, dresp, sweepVars, startVars>>

DownloadSyncReclaimDelete ==
  /\ dpc = "deleting"
  /\ ReclaimDelete(dsnap)
  /\ dsnap' = {}
  /\ dpc' = "clearing"
  /\ UNCHANGED <<now, download_status, reqVars, wpc, listVars, queryVars, dresp, sweepVars, startVars>>

DownloadSyncReclaimClear ==
  /\ dpc = "clearing"
  /\ ReclaimClear
  /\ dpc' = "info"
  /\ UNCHANGED <<now, files, reqVars, wpc, listVars, queryVars, dsnap, dresp, sweepVars, startVars>>

\* lines 494-505: the metadata query returned duration d; above 180 s the
\* request is answered 400
DownloadSyncInfo(d) ==
  /\ dpc = "info"
  /\ IF d # 0 /\ d > ShortLimit
       THEN /\ dpc' = "done"
            /\ dresp' = 400
       ELSE /\ dpc' = "download"
            /\ dresp' = dresp
  /\ UNCHANGED <<now, shared, reqVars, wpc, listVars, queryVars, dsnap, sweepVars, startVars>>

\* an exception of lines 494-526 (the metadata query or the download raised,
\* info is None): lines 532-533 answer 500
DownloadSyncRaise ==
  /\ dpc \in {"info", "download"}
  /\ dpc' = "done"
  /\ dresp' = 500
  /\ UNCHANGED <<now, shared, reqVars, wpc, listVars, queryVars, dsnap, sweepVars, startVars>>

\* line 506, inside ydl.download: the adapter writes its output file
DownloadSyncWrite ==
  /\ dpc = "download"
  /\ DirectFile \notin files
  /\ files' = files \cup {DirectFile}
  /\ UNCHANGED <<now, download_status, reqVars, wpc, clientVars, sweepVars, startVars>>

\* line 506: ydl.download returned
DownloadSyncReturn ==
  /\ dpc = "download"
  /\ dpc' = "glob"
  /\ UNCHANGED <<now, shared, reqVars, wpc, listVars, queryVars, dsnap, dresp, sweepVars, startVars>>

\* lines 509-512 and 529-530: glob for the output; none found is answered 500
DownloadSyncGlob ==
  /\ dpc = "glob"
  /\ IF DirectFile \in files
       THEN /\ dpc' = "stat"
            /\ dresp' = dresp
       ELSE /\ dpc' = "done"
            /\ dresp' = 500
  /\ UNCHANGED <<now, shared, reqVars, wpc, listVars, queryVars, dsnap, sweepVars, startVars>>

\* lines 513-528: os.path.getsize of the file found, then the response;
\* getsize raises OSError when the file was deleted meanwhile (lines 532-533)
DownloadSyncStat ==
  /\ dpc = "stat"
  /\ dpc' = "done"
  /\ dresp' = IF DirectFile \in files THEN 200 ELSE 500
  /\ UNCHANGED <<now, shared, reqVars, wpc, listVars, queryVars, dsnap, sweepVars, startVars>>

\* ------------------------------------ POST /api/cleanup, GET /api/list
\* cleanup_files (lines 591-602) calls aggressive_cleanup
ClientCleanup ==
  /\ cpc \in {"idle", "listed"}
  /\ csnap' = ReclaimGlob
  /\ cpc' = "deleting"
  /\ listCount' = Unset
  /\ UNCHANGED <<now, shared, reqVars, wpc, queryVars, syncVars, sweepVars, startVars>>

ClientReclaimDelete ==
  /\ cpc = "deleting"
  /\ ReclaimDelete(csnap)
  /\ csnap' = {}
  /\ cpc' = "clearing"
  /\ UNCHANGED <<now, download_status, reqVars, wpc, listCount, queryVars, syncVars, sweepVars, startVars>>

\* the tracker is cleared and the cleanup response is sent (lines 596-600)
ClientReclaimClear ==
  /\ cpc = "clearing"
  /\ ReclaimClear
  /\ cpc' = "cleaned"
  /\ UNCHANGED <<now, files, reqVars, wpc, csnap, listCount, queryVars, syncVars, sweepVars, startVars>>

\* list_files (lines 555-587), requested right after the cleanup response
ClientList ==
  /\ cpc = "cleaned"
  /\ listCount' = Cardinality(files)
  /\ cpc' = "listed"
  /\ UNCHANGED <<now, shared, reqVars, wpc, csnap, queryVars, syncVars, sweepVars, startVars>>

\* ------------------------------------------------ GET /api/status/<id>
\* lines 437-438: an id that is not in download_status is answered 404
StatusCheck(id) ==
  /\ qpc \in {"idle", "done"}
  /\ qid' = id
  /\ IF id \in DOMAIN download_status
       THEN /\ qpc' = "found"
            /\ qresp' = StatusResponse(Unset, NoRecord)
       ELSE /\ qpc' = "done"
            /\ qresp' = StatusResponse(404, NoRecord)
  /\ UNCHANGED <<now, shared, reqVars, wpc, listVars, syncVars, sweepVars, startVars>>

\* lines 440-452: download_status[download_id].copy() is sent with 200; when
\* the record was removed after the test of line 437 the subscript raises
\* KeyError, which no handler catches: the framework answers 500
StatusCopy ==
  /\ qpc = "found"
  /\ qpc' = "done"
  /\ qresp' = IF qid \in DOMAIN download_status
                THEN StatusResponse(200, download_status[qid])
                ELSE StatusResponse(500, NoRecord)
  /\ qid' = qid
  /\ UNCHANGED <<now, shared, reqVars, wpc, listVars, syncVars, sweepVars, startVars>>

\* --------------------------------------------------- cleanup_status
\* lines 626-629: take the time, start iterating over download_status.items()
SweepBegin ==
  /\ spc = "sleep"
  /\ sleepLeft = 0
  /\ current_time' = now
  /\ scanSize' = Cardinality(DOMAIN download_status)
  /\ spc' = "scan"
  /\ UNCHANGED <<now, shared, reqVars, wpc, clientVars, ssnap, sleepLeft, schedRuns,
                 startVars>>

\* lines 629-648: the iteration raises RuntimeError when the dictionary
\* changed size meanwhile (caught at line 645, the cycle is abandoned);
\* otherwise the expired records are popped, and the scheduled cleanup follows
\* when the time falls in the first minute of an hour
SweepExpire ==
  /\ spc = "scan"
  /\ IF Cardinality(DOMAIN download_status) # scanSize
       THEN /\ spc' = "sleep"
            /\ sleepLeft' = SweepSleep
            /\ download_status' = download_status
            /\ schedRuns' = schedRuns
       ELSE /\ download_status' =
                 DictDrop(download_status,
                          {j \in DOMAIN download_status :
                             Expired(download_status[j], current_time)})
            /\ IF ScheduledNow(current_time)
                 THEN /\ spc' = "cleanup"
                      /\ sleepLeft' = 0
                      /\ schedRuns' = schedRuns + 1
                 ELSE /\ spc' = "sleep"
                      /\ sleepLeft' = SweepSleep
                      /\ schedRuns' = schedRuns
  /\ scanSize' = 0
  /\ current_time' = 0
  /\ UNCHANGED <<now, files, reqVars, wpc, clientVars, ssnap,
                 startVars>>

SweepReclaimGlob ==
  /\ spc = "cleanup"
  /\ ssnap' = ReclaimGlob
  /\ spc' = "deleting"
  /\ UNCHANGED <<now, shared, reqVars, wpc, clientVars, scanSize, current_time, sleepLeft,
                 schedRuns,
                 startVars>>

SweepReclaimDelete ==
  /\ spc = "deleting"
  /\ ReclaimDelete(ssnap)
  /\ ssnap' = {}
  /\ spc' = "clearing"
  /\ UNCHANGED <<now, download_status, reqVars, wpc, clientVars,
                 scanSize, current_time, sleepLeft, schedRuns,
                 startVars>>

\* the tracker is cleared, line 643 returns; line 648: time.sleep(600)
SweepReclaimClear ==
  /\ spc = "clearing"
  /\ ReclaimClear
  /\ spc' = "sleep"
  /\ sleepLeft' = SweepSleep
  /\ UNCHANGED <<now, files, reqVars, wpc, clientVars, ssnap, scanSize, current_time,
                 schedRuns,
                 startVars>>

\* the wall-clock hour of time t
HourOf(t) == t \div HourSecs
\* the cleanups announced in the hour of t2, given those of the hour of t1
RunsAfter(t1, t2) == IF HourOf(t2) > HourOf(t1) THEN 0 ELSE schedRuns

\* the clock advances by d seconds; a sleeping sweep (line 648) has d seconds
\* less to sleep
Tick(d) ==
  /\ now + d <= MaxTicks * TickStep
  /\ now' = now + d
  /\ sleepLeft' = IF sleepLeft > d THEN sleepLeft - d ELSE 0
  /\ schedRuns' = RunsAfter(now, now + d)
  /\ UNCHANGED <<shared, reqVars, wpc, clientVars, spc, ssnap, scanSize, current_time,
                 startVars>>

\* line 648: the clock advances to the end of time.sleep(600), which returns
\* late seconds after the 600 s have passed
Sleep(late) ==
  /\ spc = "sleep"
  /\ sleepLeft > 0
  /\ now < (MaxHours + 1) * HourSecs
  /\ now' = now + sleepLeft + late
  /\ sleepLeft' = 0
  /\ schedRuns' = RunsAfter(now, now + sleepLeft + late)
  /\ UNCHANGED <<shared, reqVars, wpc, clientVars, spc, ssnap, scanSize, current_time,
                 startVars>>

\* the steps of request handler r
RequestStep(r) ==
  \/ \E body \in Bodies : Submit(r, body)
  \/ ReqReclaimGlob(r)
  \/ ReqReclaimDelete(r)
  \/ ReqReclaimClear(r)
  \/ \E p \in DiskPercents : CheckDisk(r, p)
  \/ \E d \in Durations : InfoReturn(r, d)
  \/ InfoRaise(r)
  \/ SyncWrite(r)
  \/ SyncReturn(r)
  \/ SyncRaise(r)
  \/ SyncGlob(r)
  \/ SyncStat(r)

\* the steps of the worker thread of job j
WorkerStep(j) ==
  \/ WorkerCreate(j)
  \/ \E p \in DiskPercents : WorkerDisk(j, p)
  \/ \E d \in Durations : WorkerInfo(j, d)
  \/ WorkerInfoRaise(j)
  \/ \E p \in Percents : ProgressHook(j, p)
  \/ \E sw \in BOOLEAN : ProgressFinished(j, sw)
  \/ AdapterWrite(j)
  \/ DownloadReturn(j)
  \/ DownloadRaise(j)
  \/ WorkerGlob(j)
  \/ WorkerStat(j)

ClientNext ==
  \/ ClientCleanup
  \/ ClientReclaimDelete
  \/ ClientReclaimClear
  \/ ClientList

DownloadSyncNext ==
  \/ \E body \in Bodies : DownloadSyncSubmit(body)
  \/ DownloadSyncReclaimGlob
  \/ DownloadSyncReclaimDelete
  \/ DownloadSyncReclaimClear
  \/ \E d \in Durations : DownloadSyncInfo(d)
  \/ DownloadSyncRaise
  \/ DownloadSyncWrite
  \/ DownloadSyncReturn
  \/ DownloadSyncGlob
  \/ DownloadSyncStat

StatusNext ==
  \/ \E id \in Reqs : StatusCheck(id)
  \/ StatusCopy

SweepNext ==
  \/ SweepBegin
  \/ SweepExpire
  \/ SweepReclaimGlob
  \/ SweepReclaimDelete
  \/ SweepReclaimClear
  \/ Tick(TickStep)

\* concurrent requests and their workers, with the cleanup/list client
Next ==
  \/ \E r \in Reqs : RequestStep(r)
  \/ \E j \in Reqs : WorkerStep(j)
  \/ ClientNext
Spec == Init /\ [][Next]_vars

\* concurrent request handlers alone: the threads they start have not run yet
NextRoute == \E r \in Reqs : RequestStep(r)
SpecRoute == Init /\ [][NextRoute]_vars

\* one request and its worker, the client, the sweep thread and the clock
NextSweep ==
  \/ RequestStep(1)
  \/ WorkerStep(1)
  \/ ClientNext
  \/ SweepNext
SpecSweep == Init /\ [][NextSweep]_vars

\* the first request and its worker, with the requests that arrive meanwhile:
\* the only reclaims are those of the request handlers
NextRace ==
  \/ RequestStep(1)
  \/ WorkerStep(1)
  \/ \E r \in Reqs \ {1} : RequestStep(r)
SpecRace == Init /\ [][NextRace]_vars

\* the start-up of the process, in every environment: any set of installed
\* packages, a directory that can or cannot be created, run as a script or
\* imported by a server
InitStartup ==
  /\ now = 0
  /\ files \in {{}, {OldFile}}
  /\ InitThreads
  /\ stmt = 1
  /\ outcome = "loading"
  /\ bound = {}
  /\ installed \in SUBSET Packages
  /\ writable \in BOOLEAN
  /\ asMain \in BOOLEAN
NextStartup == StartupStep
SpecStartup == InitStartup /\ [][NextStartup]_vars

\* the first request and its worker, with a request to POST /api/download-sync
NextSubmit ==
  \/ RequestStep(1)
  \/ WorkerStep(1)
  \/ DownloadSyncNext
SpecSubmit == Init /\ [][NextSubmit]_vars

\* the sweep thread alone, started at any of StartTimes, with the clock
\* advancing from one end of its sleep to the next
InitHourly ==
  /\ now \in StartTimes
  /\ files \in {{}, {OldFile}}
  /\ InitRest
NextHourly ==
  \/ SweepBegin
  \/ SweepExpire
  \/ SweepReclaimGlob
  \/ SweepReclaimDelete
  \/ SweepReclaimClear
  \/ \E late \in Lateness : Sleep(late)
SpecHourly == InitHourly /\ [][NextHourly]_vars

\* the same with a client that calls POST /api/cleanup: three kinds of
\* callers of the reclaim whose listings and delete loops interleave
NextReclaim ==
  \/ RequestStep(1)
  \/ WorkerStep(1)
  \/ \E r \in Reqs \ {1} : RequestStep(r)
  \/ ClientCleanup
  \/ ClientReclaimDelete
  \/ ClientReclaimClear
SpecReclaim == Init /\ [][NextReclaim]_vars

\* clean_up_old_files alone, called on every directory of up to MaxFiles
\* files with distinct creation times
InitExcess ==
  /\ now = 0
  /\ files \in SUBSET {CtimeFile(t) : t \in 1..MaxFiles}
  /\ InitRest
NextExcess == \E limit \in 0..MaxLimit : clean_up_old_files(limit)
SpecExcess == InitExcess /\ [][NextExcess]_vars

\* one request and its worker, the cleanup client and the status client
NextStatus ==
  \/ RequestStep(1)
  \/ WorkerStep(1)
  \/ ClientNext
  \/ StatusNext
SpecStatus == Init /\ [][NextStatus]_vars

\* the first request and its worker, the later requests with their workers
\* up to the first statement of the thread, the sweep thread and the clock
NextExpiry ==
  \/ RequestStep(1)
  \/ WorkerStep(1)
  \/ \E r \in Reqs \ {1} : RequestStep(r) \/ WorkerCreate(r)
  \/ SweepNext
SpecExpiry == Init /\ [][NextExpiry]_vars


\* ------------------------------------------------------------- claims
Terminal(rec) == rec.status \in {"completed", "error"}
WorkerEnded(j) == wpc[j] \in {"done", "crashed"}

C2_EveryWorkerRecordsItsOutcome ==
  \A j \in Reqs : WorkerEnded(j) => wpc[j] = "done"

\* C3: at the moment the asynchronous response hands a download_id to the
\* client, the tracker already holds a record for that id.
C3_RecordExistsWhenIdReturned ==
  [][\A r \in Reqs :
       (resp[r].download_id = Unset /\ resp'[r].download_id # Unset)
         => resp'[r].download_id \in DOMAIN download_status']_vars

\* C4: a second download request never loses or alters the job record of
\* the first: when the reclaim called by another request's handler returns,
\* every job record is still in the tracker, unchanged.
C4_OtherRequestKeepsRecords ==
  [][\A j \in DOMAIN download_status :
       (\E r \in Reqs \ {j} : pc[r] = "clearing" /\ pc'[r] = "disk")
         => (j \in DOMAIN download_status'
             /\ download_status'[j] = download_status[j])]_vars

\* C5: a job record leaves the tracker only in the sweep's expiry pass and
\* only when its timestamp is more than 1800 s old; reclaiming artifacts
\* (from a request, from POST /api/cleanup or on schedule) leaves every
\* record in place.
C5_RecordsLeaveOnlyByExpiry ==
  [][\A j \in DOMAIN download_status :
       j \notin DOMAIN download_status'
         => (spc = "scan" /\ spc' # "scan"
             /\ current_time - download_status[j].timestamp > Retention)]_vars

InSync(r) == pc[r] \in {"sync", "syncglob", "syncstat"}

\* C6: routing of POST /api/download. A request leaves the metadata query
\* either into the synchronous download, and then the reported duration is
\* known and at most 180 and no worker has been spawned, or into the
\* asynchronous path, and then the reported duration is unknown (failed
\* query, None or 0) or above 180 and no synchronous download was attempted.
C6_RoutingByDuration ==
  [][\A r \in Reqs :
       /\ InSync(r) => (duration[r] # 0 /\ duration[r] # Unset
                        /\ duration[r] <= ShortLimit /\ wpc[r] = "idle")
       /\ (pc[r] = "info" /\ pc'[r] # "info")
            => \/ /\ pc'[r] = "sync"
                  /\ duration'[r] # 0 /\ duration'[r] <= ShortLimit
                  /\ wpc'[r] = "idle"
               \/ /\ pc'[r] = "done"
                  /\ resp'[r].method = "async"
                  /\ wpc'[r] = "start"
                  /\ \/ resp'[r].duration \in {Unset, 0}
                     \/ resp'[r].duration > ShortLimit
       /\ (pc[r] # "info" /\ ~InSync(r)) => ~InSync(r)']_vars

\* a request with reported duration 180 is in its synchronous download while
\* another one was routed to a worker with reported duration 181
C6_Witness ==
  \E r, q \in Reqs :
    /\ pc[r] = "sync" /\ duration[r] = ShortLimit
    /\ resp[q].method = "async" /\ resp[q].duration = ShortLimit + 1

\* C7: an adapter failure during submission never fails the request: a
\* handler that has reached the metadata query or the synchronous download
\* ends only with the synchronous result or with an asynchronous response
\* that carries the download_id of a worker spawned in the same step; a
\* synchronous download that raised or left no file ends asynchronously.
C7_FallbackToAsync ==
  [][\A r \in Reqs :
       ((pc[r] = "info" \/ InSync(r)) /\ pc'[r] = "done")
         => /\ resp'[r].code = 200
            /\ \/ /\ resp'[r].method = "sync"
                  /\ pc[r] = "syncstat" /\ SyncFile(r) \in files
               \/ /\ resp'[r].method = "async"
                  /\ resp'[r].download_id = r
                  /\ wpc[r] = "idle" /\ wpc'[r] = "start"
            /\ (InSync(r) /\ SyncFile(r) \notin files)
                 => resp'[r].method = "async"]_vars

\* both fallbacks have happened: one request fell back after a failed
\* metadata query (unknown duration), another after its synchronous download
C7_Witness ==
  \E r, q \in Reqs :
    /\ resp[r].method = "async" /\ resp[r].duration = Unset
    /\ resp[q].method = "async" /\ resp[q].duration = ShortLimit
    /\ wpc[r] # "idle" /\ wpc[q] # "idle"

\* C8: an asynchronous job whose reported duration exceeds 600 s gets status
\* error with the duration message, its download is never invoked and no
\* artifact with its prefix exists afterwards.
C8_TooLongBecomesError ==
  [][\A j \in Reqs : \A d \in Durations :
       (d > DurationCap /\ WorkerInfo(j, d))
         => /\ j \in DOMAIN download_status'
            /\ download_status'[j].status = "error"
            /\ download_status'[j].error = "too_long"
            /\ wpc'[j] = "done"
            /\ AsyncFile(j) \notin files']_vars

\* C9: the reclaim of a request has returned (cleanup_result is set, its
\* listing is consumed) before the handler queries the metadata or calls the
\* adapter's download, and before it spawns a worker.
C9_ReclaimReturnsFirst ==
  [][\A r \in Reqs :
       /\ (pc[r] = "info" \/ InSync(r))
            => (cleanup_result[r] # Unset /\ snap[r] = {})
       /\ (wpc[r] = "idle" /\ wpc'[r] # "idle")
            => (cleanup_result[r] # Unset /\ snap[r] = {})]_vars

\* a handler is at its metadata query after its reclaim deleted a file
C9_Witness ==
  \E r \in Reqs : pc[r] = "info" /\ cleanup_result[r] > 0

C11_ReclaimIgnoresActiveJobs ==
  [][\A r \in Reqs :
       (pc[r] = "deleting" /\ pc'[r] = "clearing")
         => \A j \in Reqs : AsyncFile(j) \in snap[r] => AsyncFile(j) \notin files']_vars

\* the worker of the first job has found its artifact (line 221) and has not
\* yet recorded the outcome; the artifact is gone, and the reclaim of another
\* request has just deleted a file
C11_Witness ==
  /\ wpc[1] = "stat"
  /\ AsyncFile(1) \notin files
  /\ \E r \in Reqs \ {1} : pc[r] = "clearing" /\ deleted_count[r] > 0

\* C12: GET /api/status/<id> has exactly two outcomes, whatever cleanup, the
\* sweep and the workers do meanwhile: 200 with the job's current record when
\* the id is in the tracker, 404 when it is not; never an unhandled failure.
C12_StatusHasTwoOutcomes ==
  [][(qpc # "done" /\ qpc' = "done")
       => \/ /\ qresp'.code = 200
             /\ qid' \in DOMAIN download_status
             /\ qresp'.body = download_status[qid']
          \/ /\ qresp'.code = 404
             /\ qid' \notin DOMAIN download_status]_vars

\* C13: every job record older than the retention window is removed from
\* the tracker by the next sweep cycle, whatever runs concurrently with the
\* sweep: when a cycle's pass over the tracker ends, no record that was older
\* than 1800 s when the cycle began is left.
C13_SweepCycleRemovesExpired ==
  [][(spc = "scan" /\ spc' # "scan")
       => \A j \in DOMAIN download_status :
            Expired(download_status[j], current_time)
              => j \notin DOMAIN download_status']_vars

\* C14: while a job's status is downloading its progress never decreases:
\* whatever percentages the adapter's callbacks carry, each recorded progress
\* is at least the one recorded before.
C14_ProgressNeverDecreases ==
  [][\A j \in DOMAIN download_status \cap DOMAIN download_status' :
       (download_status[j].status = "downloading"
        /\ download_status'[j].status = "downloading")
         => download_status'[j].progress >= download_status[j].progress]_vars

Newest(S, m) == {f \in S : Cardinality({g \in S : Ctime(g) > Ctime(f)}) < m}
Min(a, b) == IF a <= b THEN a ELSE b

\* C16: reclaimExcess(keepCount) deletes all but the most recent
\* keepCount - 1 artifacts: for every directory of n artifacts and every
\* keepCount >= 1, exactly the min(n, keepCount - 1) newest remain.
C16_KeepsNewestKeepCountMinusOne ==
  [][\A keepCount \in 1..MaxLimit :
       clean_up_old_files(keepCount)
         => files' = Newest(files, Min(Cardinality(files), keepCount - 1))]_vars

\* C17: when the disk usage measured after the reclaim is above 90%, the
\* request is answered 507 and starts no work: the handler ends there without
\* a metadata query or a download, no worker is spawned and no record or file
\* of that request ever exists; at 90% or below, or with no measurement, the
\* request goes on to the metadata query.
C17_DiskFullRefusesWork ==
  [][\A r \in Reqs :
       /\ \A p \in DiskPercents :
            CheckDisk(r, p)
              => IF p # Unset /\ p > ApiDiskLimit
                   THEN /\ resp'[r].code = 507
                        /\ pc'[r] = "done"
                        /\ wpc'[r] = "idle"
                        /\ shared' = shared
                   ELSE /\ resp'[r] = NoResponse
                        /\ pc'[r] = "info"
       /\ resp[r].code = 507
            => /\ pc'[r] = "done" /\ resp'[r] = resp[r]
               /\ wpc'[r] = "idle"
               /\ r \notin DOMAIN download_status'
               /\ SyncFile(r) \notin files' /\ AsyncFile(r) \notin files']_vars

\* a request was refused with 507 while the worker of the first one is in
\* its download
C17_Witness ==
  \E r \in Reqs \ {1} :
    /\ resp[r].code = 507 /\ pc[r] = "done"
    /\ wpc[1] = "download"

\* C18: the reclaim is best-effort and never fatal: when some files of its
\* listing are already gone, the delete loop still removes every other file
\* of the listing, counts only the files it removed itself, and the reclaim
\* returns that count to its caller, which goes on (the handler to its disk
\* check, the cleanup endpoint to its response, the sweep to its sleep).
C18_ReclaimIsBestEffort ==
  [][/\ \A r \in Reqs :
          /\ (pc[r] = "deleting" /\ pc'[r] # "deleting")
               => /\ pc'[r] = "clearing"
                  /\ files' = files \ snap[r]
                  /\ deleted_count'[r] = Cardinality(files) - Cardinality(files')
          /\ (pc[r] = "clearing" /\ pc'[r] # "clearing")
               => /\ pc'[r] = "disk"
                  /\ cleanup_result'[r] = deleted_count[r]
     /\ (cpc = "deleting" /\ cpc' # "deleting")
          => (cpc' = "clearing" /\ files' = files \ csnap)
     /\ (cpc = "clearing" /\ cpc' # "clearing") => cpc' = "cleaned"
     /\ (spc = "deleting" /\ spc' # "deleting")
          => (spc' = "clearing" /\ files' = files \ ssnap)
     /\ (spc = "clearing" /\ spc' # "clearing") => spc' = "sleep"]_vars

\* a handler's delete loop has ended: some file of its listing had been
\* removed by a concurrent reclaim, another one it deleted itself
C18_Witness ==
  \E r \in Reqs :
    /\ pc[r] = "clearing"
    /\ deleted_count[r] > 0
    /\ deleted_count[r] < Cardinality(snap[r])

\* C19: a job is recorded as completed only when, after the download
\* returned, a file with the job's own prefix was found, and the recorded
\* filename is that file's name; when no such file is found the job is
\* recorded as error (missing output file).
C19_CompletedOnlyWithFile ==
  [][\A j \in Reqs :
       /\ (/\ j \in DOMAIN download_status'
           /\ download_status'[j].status = "completed"
           /\ ~(j \in DOMAIN download_status
                /\ download_status[j].status = "completed"))
            => /\ wpc[j] = "stat"
               /\ AsyncFile(j) \in files
               /\ download_status'[j].filename = AsyncFile(j)
       /\ (wpc[j] = "glob" /\ wpc'[j] # "glob" /\ AsyncFile(j) \notin files)
            => /\ j \in DOMAIN download_status'
               /\ download_status'[j].status = "error"
               /\ download_status'[j].error = "not_found"]_vars

\* C20: the sweep performs the scheduled cleanup once per hour: whenever a
\* wall-clock hour that began after the thread was started comes to its end,
\* exactly one scheduled cleanup has been performed in it.
C20_OneScheduledCleanupPerHour ==
  [][(HourOf(now') > HourOf(now) /\ HourOf(now) >= 1) => schedRuns = 1]_vars

\* C21: a worker that measures a disk usage above 85% at its start records
\* its job as error (insufficient disk space) and never invokes the adapter:
\* the thread ends there, no download is started and no artifact of the job
\* is written; at 85% or below, or with no measurement, it goes on to the
\* metadata query.
C21_WorkerDiskFullBecomesError ==
  [][\A j \in Reqs : \A p \in DiskPercents :
       WorkerDisk(j, p)
         => IF p # Unset /\ p > WorkerDiskLimit
              THEN /\ j \in DOMAIN download_status'
                   /\ download_status'[j].status = "error"
                   /\ download_status'[j].error = "disk"
                   /\ wpc'[j] = "done"
                   /\ AsyncFile(j) \notin files'
              ELSE wpc'[j] = "extract"]_vars

\* C22: a download request without a URL is rejected with 400 and has no
\* effect on state, on POST /api/download and on POST /api/download-sync: the
\* handler ends there, no reclaim is run, the artifacts and the tracker are
\* unchanged and no worker is spawned.
C22_NoUrlIsRejectedWithoutEffect ==
  [][\A body \in Bodies \ {"url"} :
       /\ \A r \in Reqs :
            Submit(r, body)
              => /\ resp'[r].code = 400
                 /\ pc'[r] = "done"
                 /\ snap' = snap /\ shared' = shared /\ wpc' = wpc
       /\ DownloadSyncSubmit(body)
            => /\ dresp' = 400
               /\ dpc' = "done"
               /\ dsnap' = dsnap /\ shared' = shared /\ wpc' = wpc]_vars

\* C23: start-up runs to completion whenever the storage directory is
\* writable: with every package installed, the only condition that aborts it
\* is a download directory that cannot be created.
C23_StartupAbortsOnlyWhenUnwritable ==
  (outcome = "aborted" /\ installed = Packages) => ~writable

TypeOK ==
  /\ now \in Nat
  /\ schedRuns \in {0, 1}
  /\ sleepLeft \in 0..SweepSleep
  /\ DOMAIN download_status \subseteq Reqs
  /\ \A j \in DOMAIN download_status :
       download_status[j].status \in {"downloading", "completed", "error"}

====
